---- MODULE Spec2Model ----
(***************************************************************************)
(* Hash-based shard routing (core/hashing.py, core/shard_router.py,        *)
(* core/settings.py) and its consumers (fastapi_app, flask_app).           *)
(*                                                                         *)
(* Several callers (request handlers / threads) run in two interpreter     *)
(* processes.  Every process has its own string-hash secret, drawn when    *)
(* the interpreter starts; the shard registry is the module-level          *)
(* dictionary of core/settings.py, loaded once.                            *)
(***************************************************************************)
EXTENDS Integers, FiniteSets, Sequences, TLC

VARIABLES DATABASE_SHARDS, SHARD_COUNT, hash_secret, frame, committed

vars == <<DATABASE_SHARDS, SHARD_COUNT, hash_secret, frame, committed>>

(***************************************************************************)
(* Bounds                                                                  *)
(***************************************************************************)
\* the configuration holds 0..MaxShards shards
MaxShards == 3
\* str hashes are drawn from -MaxHash..MaxHash
MaxHash == 2

\* two interpreter processes; t1 and t2 are threads of p1, t3 runs in p2
Procs == {"p1", "p2"}
Callers == {"t1", "t2", "t3"}
ProcOf(c) == IF c = "t3" THEN "p2" ELSE "p1"

(***************************************************************************)
(* Keys and their canonical text                                           *)
(***************************************************************************)
IntKey(i) == [kind |-> "int", int |-> i, text |-> ""]
StrKey(s) == [kind |-> "str", int |-> 0, text |-> s]

\* the id of the flask payload, also used as the fastapi id and as a string
Keys == {IntKey(42), StrKey("42"), StrKey("")}
IntKeys == {k \in Keys : k.kind = "int"}

\* str(key): decimal digits for an int, the string itself for a str
str(key) == IF key.kind = "int" THEN ToString(key.int) ELSE key.text

Texts == {str(k) : k \in Keys}
NonEmptyTexts == Texts \ {""}

(***************************************************************************)
(* hash() of a str                                                         *)
(***************************************************************************)
\* hash() never returns -1 (it is reserved for errors and mapped to -2)
HashVals == (-MaxHash..MaxHash) \ {-1}

\* The outcome of the interpreter's per-process randomisation: one hash
\* value for every non-empty text.
HashSecrets == [NonEmptyTexts -> HashVals]

\* hash(text) in a process with the given secret; the empty string hashes
\* to 0 whatever the secret is
PyHash(secret, text) == IF text = "" THEN 0 ELSE secret[text]

\* hash(key) applied to the key itself: an int hashes to its own value
PyHashObject(secret, key) ==
    IF key.kind = "int" THEN key.int ELSE PyHash(secret, key.text)

(***************************************************************************)
(* Python's integer arithmetic                                             *)
(***************************************************************************)
\* a // b for b > 0: rounds towards minus infinity
PyFloorDiv(a, b) == IF a >= 0 THEN a \div b ELSE -(((-a) + b - 1) \div b)

\* remainder that takes the sign of the dividend (truncating division)
TruncMod(a, b) == IF a >= 0 THEN a - b * (a \div b) ELSE -((-a) - b * ((-a) \div b))

\* a % b for b > 0: the remainder of the floor division
PyMod(a, b) == a - b * PyFloorDiv(a, b)

Abs(a) == IF a >= 0 THEN a ELSE -a

(***************************************************************************)
(* core/hashing.py                                                         *)
(***************************************************************************)
\* variant: the hash is made non-negative before the modulo
shard_hash_abs(secret, key, shard_count) ==
    LET h == Abs(PyHash(secret, str(key)))
    IN  IF shard_count = 0
        THEN [exc |-> "ZeroDivisionError", dividend |-> h, value |-> 0]
        ELSE [exc |-> "none", dividend |-> h, value |-> PyMod(h, shard_count)]

\* variant: the key is hashed as it is, without str()
shard_hash_nostr(secret, key, shard_count) ==
    LET h == PyHashObject(secret, key)
    IN  IF shard_count = 0
        THEN [exc |-> "ZeroDivisionError", dividend |-> h, value |-> 0]
        ELSE [exc |-> "none", dividend |-> h, value |-> PyMod(h, shard_count)]

\* hash(str(key)) % shard_count; the left operand is evaluated first, then
\* % raises ZeroDivisionError for a zero right operand
shard_hash(secret, key, shard_count) ==
    LET h == PyHash(secret, str(key))
    IN  IF shard_count = 0
        THEN [exc |-> "ZeroDivisionError", dividend |-> h, value |-> 0]
        ELSE [exc |-> "none", dividend |-> h, value |-> PyMod(h, shard_count)]

(***************************************************************************)
(* core/settings.py                                                        *)
(***************************************************************************)
\* f"shard_{index}"
ShardName(index) == "shard_" \o ToString(index)

Descriptor(i) ==
    [HOST |-> "localhost", PORT |-> 5432, DB |-> ShardName(i),
     USER |-> "admin", PASSWORD |-> "pass"]

NoShard == [HOST |-> "", PORT |-> 0, DB |-> "", USER |-> "", PASSWORD |-> ""]

\* the DATABASE_SHARDS literal written for n shards
ShardsLiteral(n) ==
    [name \in {ShardName(i) : i \in 0..(n - 1)} |->
        Descriptor(CHOOSE i \in 0..(n - 1) : ShardName(i) = name)]

\* variant: a count kept by hand, one more than the dictionary holds
StaleCount(shards) == Cardinality(DOMAIN shards) + 1

\* SHARD_COUNT = len(DATABASE_SHARDS)
ShardCountOf(shards) == Cardinality(DOMAIN shards)

(***************************************************************************)
(* Dictionary subscript                                                    *)
(***************************************************************************)
\* variant: d.get(name, <first shard>) instead of d[name]
DictGetDefault(d, name) ==
    IF name \in DOMAIN d
    THEN [exc |-> "none", value |-> d[name]]
    ELSE IF ShardName(0) \in DOMAIN d
         THEN [exc |-> "none", value |-> d[ShardName(0)]]
         ELSE [exc |-> "KeyError", value |-> NoShard]

\* d[name]: the value, or KeyError (a LookupError) for a missing key
DictGet(d, name) ==
    IF name \in DOMAIN d
    THEN [exc |-> "none", value |-> d[name]]
    ELSE [exc |-> "KeyError", value |-> NoShard]

\* d without the key name (d.pop(name))
DictWithout(d, name) == [n \in (DOMAIN d) \ {name} |-> d[n]]

(***************************************************************************)
(* Callers                                                                 *)
(***************************************************************************)
\* route_to_shard called directly, or through get_session by a handler
Ops == {"route_to_shard", "fastapi_create_user", "flask_create_user"}
CreateOps == {"fastapi_create_user", "flask_create_user"}

IdleFrame ==
    [pc |-> "idle", op |-> "none", key |-> StrKey(""), dividend |-> 0,
     index |-> 0, shard_name |-> "", shard |-> NoShard, uri |-> "",
     response |-> [none |-> TRUE], exc |-> "none"]

\* f"postgresql://{USER}:{PASSWORD}@{HOST}/{DB}"
Uri(shard) ==
    "postgresql://" \o shard.USER \o ":" \o shard.PASSWORD \o "@"
        \o shard.HOST \o "/" \o shard.DB

Init ==
    /\ \E n \in 0..MaxShards : DATABASE_SHARDS = ShardsLiteral(n)
    /\ SHARD_COUNT = ShardCountOf(DATABASE_SHARDS)
    /\ hash_secret \in [Procs -> HashSecrets]
    /\ frame = [c \in Callers |-> IdleFrame]
    /\ committed = {}

\* a caller enters route_to_shard or a create_user handler; fastapi takes
\* an int id, flask uses the id of its fixed payload
Call(c, op, key) ==
    /\ frame[c].pc = "idle"
    /\ op = "fastapi_create_user" => key \in IntKeys
    /\ op = "flask_create_user" => key = IntKey(42)
    /\ frame' = [frame EXCEPT ![c] = [IdleFrame EXCEPT !.pc = "shard_hash",
                                                       !.op = op, !.key = key]]
    /\ UNCHANGED <<DATABASE_SHARDS, SHARD_COUNT, hash_secret, committed>>

\* shard_router.py line 10: index = shard_hash(key, SHARD_COUNT)
ShardHash(c) ==
    /\ frame[c].pc = "shard_hash"
    /\ LET r == shard_hash(hash_secret[ProcOf(c)], frame[c].key, SHARD_COUNT)
       IN  frame' = [frame EXCEPT ![c].dividend = r.dividend,
                                  ![c].index = r.value,
                                  ![c].exc = r.exc,
                                  ![c].pc = IF r.exc = "none" THEN "lookup" ELSE "done"]
    /\ UNCHANGED <<DATABASE_SHARDS, SHARD_COUNT, hash_secret, committed>>

\* where a caller goes once route_to_shard has returned a descriptor
AfterRoute(op) == IF op \in CreateOps THEN "commit" ELSE "done"

\* variant: the descriptor is taken out of the registry (pop) when it is read
LookupPop(c) ==
    /\ frame[c].pc = "lookup"
    /\ LET name == ShardName(frame[c].index)
           r == DictGet(DATABASE_SHARDS, name)
       IN  /\ frame' = [frame EXCEPT
                  ![c].shard_name = name,
                  ![c].shard = r.value,
                  ![c].exc = r.exc,
                  ![c].uri = IF r.exc = "none" /\ frame[c].op # "route_to_shard"
                             THEN Uri(r.value) ELSE "",
                  ![c].pc = IF r.exc = "none" THEN AfterRoute(frame[c].op) ELSE "done"]
           /\ DATABASE_SHARDS' = DictWithout(DATABASE_SHARDS, name)
    /\ UNCHANGED <<SHARD_COUNT, hash_secret, committed>>

\* shard_router.py lines 11-12: the registry subscript; in get_session the
\* descriptor is then formatted into the connection URI of the session
Lookup(c) ==
    /\ frame[c].pc = "lookup"
    /\ LET name == ShardName(frame[c].index)
           r == DictGet(DATABASE_SHARDS, name)
       IN  frame' = [frame EXCEPT
               ![c].shard_name = name,
               ![c].shard = r.value,
               ![c].exc = r.exc,
               ![c].uri = IF r.exc = "none" /\ frame[c].op # "route_to_shard"
                          THEN Uri(r.value) ELSE "",
               ![c].pc = IF r.exc = "none" THEN AfterRoute(frame[c].op) ELSE "done"]
    /\ UNCHANGED <<DATABASE_SHARDS, SHARD_COUNT, hash_secret, committed>>

\* the handler's response: both apps report id % 2
Response(op, id) ==
    IF op = "fastapi_create_user"
    THEN [stored_in_shard |-> PyMod(id, 2)]
    ELSE [status |-> "ok", shard |-> PyMod(id, 2)]

\* session.add(user); session.commit() on the session bound to the URI,
\* then the handler returns its response
Commit(c) ==
    /\ frame[c].pc = "commit"
    /\ committed' = committed \cup {<<frame[c].uri, frame[c].key.int>>}
    /\ frame' = [frame EXCEPT ![c].response = Response(frame[c].op, frame[c].key.int),
                              ![c].pc = "done"]
    /\ UNCHANGED <<DATABASE_SHARDS, SHARD_COUNT, hash_secret>>

\* the caller consumes the result (or the exception) and is free again
Return(c) ==
    /\ frame[c].pc = "done"
    /\ frame' = [frame EXCEPT ![c] = IdleFrame]
    /\ UNCHANGED <<DATABASE_SHARDS, SHARD_COUNT, hash_secret, committed>>

Next ==
    \/ \E c \in Callers, op \in Ops, key \in Keys : Call(c, op, key)
    \/ \E c \in Callers : ShardHash(c)
    \/ \E c \in Callers : Lookup(c)
    \/ \E c \in Callers : Commit(c)
    \/ \E c \in Callers : Return(c)

Spec == Init /\ [][Next]_vars

(***************************************************************************)
(* The registry subscript on its own: lines 11-12 of shard_router.py       *)
(* applied to an arbitrary index                                           *)
(***************************************************************************)
IndexInputs == -1..(MaxShards + 1)

InitGet ==
    /\ \E n \in 0..MaxShards : DATABASE_SHARDS = ShardsLiteral(n)
    /\ SHARD_COUNT = ShardCountOf(DATABASE_SHARDS)
    /\ hash_secret \in [Procs -> HashSecrets]
    /\ \E i \in IndexInputs :
          frame = [c \in Callers |->
                     IF c = "t1"
                     THEN [IdleFrame EXCEPT !.pc = "lookup", !.op = "route_to_shard",
                                            !.index = i]
                     ELSE IdleFrame]
    /\ committed = {}

NextGet ==
    \/ \E c \in Callers : Lookup(c)
    \/ \E c \in Callers : Return(c)

SpecGet == InitGet /\ [][NextGet]_vars

(***************************************************************************)
(* Properties                                                              *)
(***************************************************************************)
\* shard_hash has returned an index to the caller
HasIndex(c) == frame[c].pc \in {"lookup", "commit", "done"} /\ frame[c].exc # "ZeroDivisionError"

\* route_to_shard has finished in the caller, with a descriptor or an exception
Routed(c) == frame[c].pc \in {"commit", "done"}

\* what route_to_shard gave the caller
RouteResult(c) == [exc |-> frame[c].exc, index |-> frame[c].index, shard |-> frame[c].shard]

\* the shard index a create_user response reports
ReportedShard(c) ==
    IF frame[c].op = "fastapi_create_user"
    THEN frame[c].response.stored_in_shard
    ELSE frame[c].response.shard

\* C1 (as claimed): any two finished route_to_shard calls with the same key,
\* in whichever processes they ran, have the same outcome, index and
\* descriptor.
C1_Determinism ==
    \A c \in Callers, d \in Callers :
        (Routed(c) /\ Routed(d) /\ frame[c].key = frame[d].key)
            => RouteResult(c) = RouteResult(d)

\* C2: whenever shard_hash returns for a shard count N > 0, the index is in
\* 0..N-1, also when the hash of the key's text is negative.
C2_RangeBound ==
    \A c \in Callers :
        (HasIndex(c) /\ SHARD_COUNT > 0)
            => (0 <= frame[c].index /\ frame[c].index < SHARD_COUNT)

C2_Witness ==
    \E c \in Callers :
        /\ HasIndex(c)
        /\ frame[c].dividend < 0
        /\ SHARD_COUNT > 1
        /\ frame[c].index > 0

\* C3 (as claimed): with an empty registry every finished call has failed
\* with ConfigurationError.
C3_ZeroShardRejection ==
    \A c \in Callers :
        (SHARD_COUNT = 0 /\ frame[c].pc = "done")
            => frame[c].exc = "ConfigurationError"

\* C4: two route_to_shard calls in one process whose keys have the same
\* str() text (the int 42 and the string "42") get the same index and the
\* same descriptor.
C4_SameTextSameShard ==
    \A c \in Callers, d \in Callers :
        (/\ ProcOf(c) = ProcOf(d)
         /\ Routed(c) /\ Routed(d)
         /\ SHARD_COUNT > 0
         /\ str(frame[c].key) = str(frame[d].key))
            => RouteResult(c) = RouteResult(d)

C4_Witness ==
    \E c \in Callers, d \in Callers :
        /\ ProcOf(c) = ProcOf(d)
        /\ Routed(c) /\ Routed(d)
        /\ SHARD_COUNT > 1
        /\ frame[c].key = IntKey(42)
        /\ frame[d].key = StrKey("42")
        /\ frame[c].exc = "none" /\ frame[d].exc = "none"
        /\ frame[c].index > 0

\* C5: no step of route_to_shard, get_session or create_user changes the
\* registry or the shard count.
C5_RegistryImmutable ==
    [][DATABASE_SHARDS' = DATABASE_SHARDS /\ SHARD_COUNT' = SHARD_COUNT]_vars

C5_Witness ==
    /\ SHARD_COUNT = 2
    /\ DATABASE_SHARDS = ShardsLiteral(2)
    /\ committed # {}
    /\ \E c \in Callers : frame[c].pc = "done" /\ frame[c].op = "route_to_shard"
    /\ \E c \in Callers : frame[c].pc = "done" /\ frame[c].op \in CreateOps

\* C6: the registry subscript for an index outside 0..SHARD_COUNT-1 fails
\* with KeyError (a lookup error) and yields no descriptor, in particular
\* not the descriptor of another shard.
C6_OutOfRangeLookup ==
    \A c \in Callers :
        (/\ frame[c].pc = "done"
         /\ frame[c].op = "route_to_shard"
         /\ ~(0 <= frame[c].index /\ frame[c].index < SHARD_COUNT))
            => /\ frame[c].exc = "KeyError"
               /\ frame[c].shard = NoShard
               /\ \A n \in DOMAIN DATABASE_SHARDS : frame[c].shard # DATABASE_SHARDS[n]

C6_Witness ==
    \E c \in Callers :
        /\ frame[c].pc = "done"
        /\ SHARD_COUNT = 2
        /\ frame[c].index = 2
        /\ frame[c].shard_name = "shard_2"
        /\ frame[c].exc = "KeyError"

\* C7: callers of one process that have called route_to_shard with the same
\* key hold the same outcome, index and descriptor, whatever the
\* interleaving of their steps and of the other callers' steps.
C7_ConcurrentCallersAgree ==
    \A c \in Callers, d \in Callers :
        (/\ ProcOf(c) = ProcOf(d)
         /\ Routed(c) /\ Routed(d)
         /\ frame[c].key = frame[d].key)
            => RouteResult(c) = RouteResult(d)

C7_Witness ==
    \E c \in Callers, d \in Callers :
        /\ c # d
        /\ ProcOf(c) = ProcOf(d)
        /\ frame[c].pc = "done" /\ frame[d].pc = "done"
        /\ frame[c].key = frame[d].key
        /\ frame[c].exc = "none" /\ frame[d].exc = "none"
        /\ \E e \in Callers : ProcOf(e) # ProcOf(c) /\ frame[e].pc = "lookup"

C9_RegistryContiguous ==
    /\ DOMAIN DATABASE_SHARDS = {ShardName(i) : i \in 0..(SHARD_COUNT - 1)}
    /\ SHARD_COUNT = Cardinality(DOMAIN DATABASE_SHARDS)
    /\ \A c \in Callers :
           /\ frame[c].exc # "KeyError"
           /\ (Routed(c) /\ SHARD_COUNT > 0) =>
                  /\ frame[c].exc = "none"
                  /\ frame[c].shard = DATABASE_SHARDS[ShardName(frame[c].index)]

C9_Witness ==
    /\ SHARD_COUNT = MaxShards
    /\ \E c \in Callers :
           /\ frame[c].pc = "done"
           /\ frame[c].exc = "none"
           /\ frame[c].index = SHARD_COUNT - 1
           /\ frame[c].shard.DB = ShardName(SHARD_COUNT - 1)

\* C10 (as claimed): the shard index in a create_user response is the index
\* route_to_shard computed for the id, the shard the user was committed on.
C10_ReportedIsUsed ==
    \A c \in Callers :
        (frame[c].pc = "done" /\ frame[c].op \in CreateOps /\ frame[c].exc = "none")
            => /\ ReportedShard(c) = frame[c].index
               /\ <<Uri(Descriptor(ReportedShard(c))), frame[c].key.int>> \in committed

====
